---------------------------- MODULE Spec2Model ----------------------------
(***************************************************************************)
(* Model of the power monitor of uasm1le/dtek_python                       *)
(* (src/src/power_monitor.py, src/src/telegram_bot.py).                    *)
(*                                                                         *)
(* One cycle of PowerMonitor.monitor_power_status probes the device,       *)
(* loads the status file, decides, sends Telegram messages and saves the   *)
(* status file.  The side effects of a cycle are computed, in the order    *)
(* the code performs them, by MonitorEffects; the action                   *)
(* MonitorPowerStatus performs them all.                                   *)
(*                                                                         *)
(* Python dicts are records; a key that a dict lacks is a field the record *)
(* lacks.  Python's None is the record None.  Message texts are records of *)
(* the template and the values formatted into it.                          *)
(***************************************************************************)
EXTENDS Integers, Sequences, FiniteSets, TLC

(***************************************************************************)
(* Program constants and the bounds of the model.                          *)
(***************************************************************************)
\* PowerMonitor.POWER_OFF_CONFIRMATION_DELAY = 10 * 60 seconds
POWER_OFF_CONFIRMATION_DELAY == 600

\* The wall clock (unix seconds) when the first cycle may run.
StartTime == 1000
\* Cycles run while the clock is at most StartTime + Horizon.
Horizon == 1200
\* At most MaxKills cycles are killed midway.
MaxKills == 1

\* Seconds that pass between two consecutive cycles.  The cron entry runs a
\* cycle every minute, a stopped scheduler lets any time pass; these values
\* make the elapsed draft time fall below, on and above the delay.
Steps == {0, 300, 599, 600}

\* POWER_CHAT_IDS after splitting and dropping empty items; DEBUG_CHAT_ID
\* ("" models unset or empty, both falsy).
PowerChatLists == {<< >>, <<"c1">>, <<"c1", "c2">>}
DebugChatIds == {"", "dbg"}

\* Python's None.
None == [none |-> TRUE]

VARIABLES
    now,              \* the wall clock, unix seconds
    response,         \* the last cycle's probe response ("none": no cycle yet)
    status_file,      \* content of .power_status: None (no file) or its JSON text
    power_chat_ids,   \* self.power_chat_ids
    debug_chat_id,    \* self.debug_chat_id
    log_track,        \* self.log_track
    current_status,   \* the last cycle's observation (None: the probe failed)
    last_status,      \* what the last cycle loaded (None: nothing, or not loaded)
    calls,            \* the last cycle's side effects in order, sends with their result
    ending,           \* how the last cycle ended: "returned", "raised" (an exception
                      \* left monitor_power_status), "killed" (the process stopped
                      \* before the cycle's end); "none": no cycle yet
    run,              \* history: the current run of consecutive offline observations
    kills,            \* history: the number of cycles killed so far
    inflight,         \* overlapping invocations: for each process, the position
                      \* and the locals of its invocation of monitor_power_status
    overlapped,       \* history: some invocation was entered while another
                      \* was in flight
    duration_seconds, \* the argument of the latest format_duration call made
                      \* on its own, and
    duration_str,     \* what it returned
    current_time,     \* datetime.now().time() at the latest call of
                      \* TelegramBot._is_restricted_time made on its own, and
    restricted,       \* what it returned
    menu_duration_str, \* what BotMenuHandler.format_duration returned for the
                      \* same argument
    delivery,         \* the latest call of TelegramBot.send_message made on its
                      \* own: its inputs and its outcome
    announced,        \* history: the latest event announced and the primary
                      \* notification before it
    loop,             \* the position of start_monitoring and the number of
                      \* cycles it has run
    user_settings,    \* the user_settings table: for each user, the row's
                      \* notification_chats text (None: no row)
    last_op           \* history: for each user and chat id, the last operation
                      \* made on it

vars == <<now, response, status_file, power_chat_ids, debug_chat_id, log_track,
          current_status, last_status, calls, ending, run, kills,
          inflight, overlapped, duration_seconds, duration_str, current_time, restricted,
          menu_duration_str, delivery, announced, loop, user_settings, last_op>>

(***************************************************************************)
(* Helpers for Python semantics.                                           *)
(***************************************************************************)
\* bool(d.get(k)) for a dict d whose value at k is an integer
Truthy(d, k) == k \in DOMAIN d /\ d[k] # 0

\* now.strftime("%H:%M"), taking the clock as UTC
TimeStr(t) == <<(t \div 3600) % 24, (t \div 60) % 60>>

(***************************************************************************)
(* PowerMonitor.format_duration: the parts joined by ' ', each part a      *)
(* number and its unit word (transliterated).                              *)
(***************************************************************************)
\* Mutant: the day word follows the last digit of the count (21 as 1).
DayWord_ByLastDigit(days) ==
    IF days % 10 = 1 /\ days % 100 # 11 THEN "den"
    ELSE IF 2 <= days % 10 /\ days % 10 <= 4 /\ ~(12 <= days % 100 /\ days % 100 <= 14)
         THEN "dni"
    ELSE "dniv"

DayWord(days) ==
    IF days = 1 THEN "den"
    ELSE IF 2 <= days /\ days <= 4 THEN "dni"
    ELSE "dniv"

\* Mutant: the minutes are rounded to the nearest.
format_duration_Rounds(seconds) ==
    LET total_minutes == (seconds + 30) \div 60
        total_hours == total_minutes \div 60
        days == total_hours \div 24
        hours == total_hours % 24
        minutes == total_minutes % 60
    IN  (IF days > 0 THEN << <<days, DayWord(days)>> >> ELSE << >>)
        \o (IF hours > 0 THEN << <<hours, "hod.">> >> ELSE << >>)
        \o (IF minutes > 0 \/ (days = 0 /\ hours = 0)
            THEN << <<minutes, "khv">> >> ELSE << >>)

format_duration(seconds) ==
    LET total_minutes == seconds \div 60
        total_hours == total_minutes \div 60
        days == total_hours \div 24
        hours == total_hours % 24
        minutes == total_minutes % 60
    IN  (IF days > 0 THEN << <<days, DayWord(days)>> >> ELSE << >>)
        \o (IF hours > 0 THEN << <<hours, "hod.">> >> ELSE << >>)
        \o (IF minutes > 0 \/ (days = 0 /\ hours = 0)
            THEN << <<minutes, "khv">> >> ELSE << >>)

(***************************************************************************)
(* The text of a formatted duration.  A Python string is the sequence of   *)
(* its Unicode code points.                                                *)
(***************************************************************************)
\* str(n) for an integer n >= 0
RECURSIVE Str(_)
Str(n) == IF n < 10 THEN <<48 + n>> ELSE Str(n \div 10) \o <<48 + (n % 10)>>

\* ' '.join(parts)
RECURSIVE Join(_)
Join(parts) ==
    IF parts = << >> THEN << >>
    ELSE IF Len(parts) = 1 THEN parts[1]
    ELSE parts[1] \o <<32>> \o Join(Tail(parts))

\* The string literals of PowerMonitor.format_duration as the source file
\* holds them: the day words of lines 162, 164 and 166, the hour unit of
\* line 170 and the minute unit of line 173.
UnitText(unit) ==
    CASE unit = "den" -> <<8211, 165, 8211, 181, 8211, 937, 8212, 229>>
      [] unit = "dni" -> <<8211, 165, 8211, 937, 8212, 241>>
      [] unit = "dniv" -> <<8211, 165, 8211, 937, 8212, 241, 8211, 8804>>
      [] unit = "hod." -> <<8211, 8805, 8211, 230, 8211, 165, 46>>
      [] unit = "khv" -> <<8212, 214, 8211, 8804>>

\* The string PowerMonitor.format_duration returns: each part is
\* f"{number} {unit}", the parts joined by spaces.
FormattedText(parts) ==
    Join([i \in 1..Len(parts) |-> Str(parts[i][1]) \o <<32>> \o UnitText(parts[i][2])])

\* BotMenuHandler.format_duration: the same arithmetic, an early return for
\* a falsy argument, and the string literals of telegram_handler.py.
BotMenuHandler_format_duration(seconds) ==
    IF seconds = 0 THEN <<48, 32, 1093, 1074>>
    ELSE
    LET total_minutes == seconds \div 60
        total_hours == total_minutes \div 60
        days == total_hours \div 24
        hours == total_hours % 24
        minutes == total_minutes % 60
        day_word == IF days = 1 THEN <<1076, 1077, 1085, 1100>>
                    ELSE IF 2 <= days /\ days <= 4 THEN <<1076, 1085, 1110>>
                    ELSE <<1076, 1085, 1110, 1074>>
    IN  Join((IF days > 0 THEN << Str(days) \o <<32>> \o day_word >> ELSE << >>)
             \o (IF hours > 0
                 THEN << Str(hours) \o <<32, 1075, 1086, 1076, 46>> >> ELSE << >>)
             \o (IF minutes > 0 \/ (days = 0 /\ hours = 0)
                 THEN << Str(minutes) \o <<32, 1093, 1074>> >> ELSE << >>))

(***************************************************************************)
(* TelegramBot._is_restricted_time.  A time of day (datetime.time) is      *)
(* <<hour, minute, second, microsecond>>; Python orders times by these     *)
(* four in turn.                                                           *)
(***************************************************************************)
TimeLeq(a, b) ==
    \/ a[1] < b[1]
    \/ a[1] = b[1] /\ a[2] < b[2]
    \/ a[1] = b[1] /\ a[2] = b[2] /\ a[3] < b[3]
    \/ a[1] = b[1] /\ a[2] = b[2] /\ a[3] = b[3] /\ a[4] <= b[4]

\* datetime.strptime("23:30", "%H:%M").time() and ("00:30", ...)
start_time == <<23, 30, 0, 0>>
end_time == <<0, 30, 0, 0>>

\* Mutant: the end of the window is excluded.
is_restricted_time_EndExclusive(t) ==
    TimeLeq(start_time, t) \/ (TimeLeq(t, end_time) /\ t # end_time)

\* lines 46-50
is_restricted_time(t) == TimeLeq(start_time, t) \/ TimeLeq(t, end_time)

(***************************************************************************)
(* TelegramBot.send_message.  chat_id "" is a chat id not given (None),    *)
(* default_chat_id "" is TELEGRAM_CHAT_ID not set; t is the time of day of *)
(* the call and accepted tells whether Telegram accepts the message (if    *)
(* not, bot.send_message raises TelegramError).  The outcome tells whether *)
(* the call raised ValueError, whether bot.send_message was called, with   *)
(* which chat id, and the value returned.                                  *)
(***************************************************************************)
Raised == [raised |-> TRUE, attempted |-> FALSE, to |-> "", result |-> FALSE]

\* Mutant: force_send does not open the restricted window.
send_message_IgnoresForce(chat_id, default_chat_id, t, force_send, accepted) ==
    IF chat_id = "" /\ default_chat_id = "" THEN Raised
    ELSE IF is_restricted_time(t) THEN Raised
    ELSE [raised |-> FALSE, attempted |-> TRUE,
          to |-> IF chat_id = "" THEN default_chat_id ELSE chat_id,
          result |-> accepted]

send_message(chat_id, default_chat_id, t, force_send, accepted) ==
    IF chat_id = "" /\ default_chat_id = "" THEN Raised
    ELSE IF is_restricted_time(t) /\ ~force_send THEN Raised
    ELSE [raised |-> FALSE, attempted |-> TRUE,
          to |-> IF chat_id = "" THEN default_chat_id ELSE chat_id,
          result |-> accepted]

\* datetime.now().time() when the clock reads t unix seconds (UTC).
TimeOfDay(t) == <<(t \div 3600) % 24, (t \div 60) % 60, t % 60, 0>>

(***************************************************************************)
(* PowerMonitor.check_power_status.  The response is one of                *)
(*   "online", "offline": the device's itemData.online is true, false;     *)
(*   "malformed": a JSON object lacking data/thingList/itemData/online,    *)
(*                for which the chain of .get() defaults yields not-online;*)
(*   "error":     the request or response.json() raises (caught).          *)
(***************************************************************************)
Responses == {"online", "offline", "malformed", "error"}

\* Mutant: a failed request is taken for an offline reading.
check_power_status_ErrorIsOffline(resp, t) ==
    [online |-> (resp = "online"), timestamp |-> t, raw_data |-> resp]

check_power_status(resp, t) ==
    IF resp = "error" THEN None
    ELSE [online |-> (resp = "online"), timestamp |-> t, raw_data |-> resp]

(***************************************************************************)
(* The status file holds text.  The text of a JSON object is modelled by   *)
(* the set of its members (key, value); other texts by their kind.         *)
(***************************************************************************)
\* json.dump(status, f, indent=2) of a dict
json_dump(d) == [json |-> "object", members |-> {<<k, d[k]>> : k \in DOMAIN d}]

\* json.load(f) of the text of an object
json_load(text) ==
    [k \in {m[1] : m \in text.members} |->
        (CHOOSE m \in text.members : m[1] = k)[2]]

(***************************************************************************)
(* PowerMonitor.load_last_status and save_status on the status file.       *)
(***************************************************************************)
\* Texts that no save_status wrote: one that is not JSON (json.load raises),
\* and the JSON array [1] (json.load returns a non-empty list).
GarbageText == [json |-> "garbage"]
ArrayText == [json |-> "array"]
CorruptTexts == {GarbageText, ArrayText}

\* The text of a file that open(self.status_file, 'w') truncated and into
\* which nothing was written yet, or ever: json.load raises on it.
EmptyText == [json |-> "empty"]

\* The Python list [1]
ListValue == [list |-> <<1>>]

\* Mutant: a file that cannot be parsed is reported as an empty dict... of
\* which the caller reads the fields; here: every text is parsed as a record.
load_last_status_TrustsFile(file) ==
    IF file = None THEN None
    ELSE IF file.json = "object" THEN json_load(file)
    ELSE ListValue

\* None when the file does not exist or json.load raises (caught, lines
\* 116-119), else what json.load returns
load_last_status(file) ==
    IF file = None THEN None
    ELSE IF file.json \in {"garbage", "empty"} THEN None
    ELSE IF file.json = "array" THEN ListValue
    ELSE json_load(file)

\* Mutant: the new members are written over the old text, whose other
\* members stay.
save_status_Merges(file, status) ==
    IF file = None THEN json_dump(status)
    ELSE [json |-> "object",
          members |-> {m \in file.members : m[1] \notin DOMAIN status}
                      \cup json_dump(status).members]

\* open(self.status_file, 'w') truncates the file; the dict is dumped into it
save_status(file, status) == json_dump(status)

\* The ways save_status can fail to write; both are caught and reported
\* (lines 131-132).  "open": open() raises (no permission, read-only file
\* system) and the file is untouched.  "write": open() has truncated the
\* file and the write raises (disk full, quota, I/O error; the text is
\* buffered and written when the with block closes the file).
SaveFailures == {"open", "write"}

\* The file after a save_status call that failed
save_status_failed(file, failure) ==
    IF failure = "open" THEN file ELSE EmptyText

(***************************************************************************)
(* The effects of one cycle: calls of telegram_bot.send_message and of     *)
(* save_status, in program order.                                          *)
(***************************************************************************)
\* Mutant: the message is sent without force_send.
SendCall_Unforced(chat, template, t, duration, silent) ==
    [op |-> "send", chat_id |-> chat, silent_mode |-> silent, force_send |-> FALSE,
     text |-> [template |-> template, time_str |-> TimeStr(t),
               duration_str |-> format_duration(duration)]]

SendCall(chat, template, t, duration, silent) ==
    [op |-> "send", chat_id |-> chat, silent_mode |-> silent, force_send |-> TRUE,
     text |-> [template |-> template, time_str |-> TimeStr(t),
               duration_str |-> format_duration(duration)]]

\* The draft-begin and draft-confirmed debug texts carry no duration.
SendCallPlain(chat, template, t, silent) ==
    [op |-> "send", chat_id |-> chat, silent_mode |-> silent, force_send |-> TRUE,
     text |-> [template |-> template, time_str |-> TimeStr(t)]]

SaveCall(status) == [op |-> "save", status |-> status]

LoadCall == [op |-> "load"]

\* for chat_id in self.power_chat_ids: await send_message(...)
\* Mutant: only the first recipient is sent the primary notification.
PrimarySends_FirstOnly(chats, template, t, duration) ==
    [i \in 1..(IF chats = << >> THEN 0 ELSE 1) |->
        SendCall(chats[i], template, t, duration, FALSE)]

PrimarySends(chats, template, t, duration) ==
    [i \in 1..Len(chats) |-> SendCall(chats[i], template, t, duration, FALSE)]

\* if self.log_track and self.debug_chat_id
\* Mutant: a debug chat alone enables the debug notifications.
DebugEnabled_IgnoresFlag(track, debug_chat) == debug_chat # ""

DebugEnabled(track, debug_chat) == track /\ debug_chat # ""

\* Mutant: the first run records the device as online whatever was observed.
BootstrapStatus_AssumesOnline(cur) ==
    [online |-> TRUE, timestamp |-> cur.timestamp,
     status_changed_at |-> cur.timestamp, raw_data |-> cur.raw_data]

\* First run: the dict saved at lines 200-205
BootstrapStatus(cur) ==
    [online |-> cur.online, timestamp |-> cur.timestamp,
     status_changed_at |-> cur.timestamp, raw_data |-> cur.raw_data]

\* Mutant: the unchanged branches restart the streak at every observation.
UnchangedStatus_Touch(last, cur) ==
    [online |-> cur.online, timestamp |-> cur.timestamp,
     status_changed_at |-> cur.timestamp, raw_data |-> cur.raw_data]

\* Mutant: the unchanged branches carry a pending draft over.
UnchangedStatus_KeepsDraft(last, cur) ==
    IF "draft_off_time" \in DOMAIN last
    THEN [online |-> cur.online, timestamp |-> cur.timestamp,
          status_changed_at |-> last.status_changed_at,
          draft_off_time |-> last.draft_off_time, raw_data |-> cur.raw_data]
    ELSE [online |-> cur.online, timestamp |-> cur.timestamp,
          status_changed_at |-> last.status_changed_at, raw_data |-> cur.raw_data]

\* Both online / both offline: the dict saved at lines 212-217, 222-227
UnchangedStatus(last, cur) ==
    [online |-> cur.online, timestamp |-> cur.timestamp,
     status_changed_at |-> last.status_changed_at, raw_data |-> cur.raw_data]

\* Mutant: the restoration keeps the start of the offline streak.
RestoredStatus_KeepsChangedAt(last, cur) ==
    [online |-> cur.online, timestamp |-> cur.timestamp,
     status_changed_at |-> last.status_changed_at, raw_data |-> cur.raw_data]

\* Offline -> online: the dict saved at lines 259-264
RestoredStatus(last, cur) ==
    [online |-> cur.online, timestamp |-> cur.timestamp,
     status_changed_at |-> cur.timestamp, raw_data |-> cur.raw_data]

\* Mutant: the draft records the observed (offline) value as confirmed.
DraftStatus_Offline(last, cur) ==
    [online |-> cur.online, timestamp |-> cur.timestamp,
     status_changed_at |-> last.status_changed_at,
     draft_off_time |-> cur.timestamp, raw_data |-> cur.raw_data]

\* Mutant: the two timestamps of the draft are swapped.
DraftStatus_SwapsTimes(last, cur) ==
    [online |-> TRUE, timestamp |-> cur.timestamp,
     status_changed_at |-> cur.timestamp,
     draft_off_time |-> last.status_changed_at, raw_data |-> cur.raw_data]

\* Draft begins: the dict saved at lines 271-277
DraftStatus(last, cur) ==
    [online |-> TRUE, timestamp |-> cur.timestamp,
     status_changed_at |-> last.status_changed_at,
     draft_off_time |-> cur.timestamp, raw_data |-> cur.raw_data]

\* Mutant: the confirmation leaves the record online with its draft.
OutageStatus_KeepsDraft(last, cur) ==
    [online |-> TRUE, timestamp |-> cur.timestamp,
     status_changed_at |-> cur.timestamp,
     draft_off_time |-> last.draft_off_time, raw_data |-> cur.raw_data]

\* Outage confirmed: the dict saved at lines 328-333
OutageStatus(last, cur) ==
    [online |-> FALSE, timestamp |-> cur.timestamp,
     status_changed_at |-> cur.timestamp, raw_data |-> cur.raw_data]

\* Mutant: the boundary is exclusive.
ConfirmationPassed_Exclusive(time_since_draft) ==
    time_since_draft > POWER_OFF_CONFIRMATION_DELAY

\* if time_since_draft >= self.POWER_OFF_CONFIRMATION_DELAY
ConfirmationPassed(time_since_draft) ==
    time_since_draft >= POWER_OFF_CONFIRMATION_DELAY

\* Lines 231-265
\* Mutant: the restoration is announced and never saved.
RestoredEffects_NoSave(last, cur, chats, track, debug_chat) ==
    PrimarySends(chats, "restored", cur.timestamp, cur.timestamp - last.status_changed_at)

\* Mutant: the restoration is saved before it is announced.
RestoredEffects_SaveFirst(last, cur, chats, track, debug_chat) ==
    LET duration == cur.timestamp - last.status_changed_at
    IN  <<SaveCall(RestoredStatus(last, cur))>>
        \o PrimarySends(chats, "restored", cur.timestamp, duration)
        \o (IF Truthy(last, "draft_off_time") /\ DebugEnabled(track, debug_chat)
            THEN <<SendCall(debug_chat, "draft_cancelled", cur.timestamp,
                            cur.timestamp - last.draft_off_time, TRUE)>>
            ELSE << >>)

RestoredEffects(last, cur, chats, track, debug_chat) ==
    LET duration == cur.timestamp - last.status_changed_at
    IN  PrimarySends(chats, "restored", cur.timestamp, duration)
        \o (IF Truthy(last, "draft_off_time") /\ DebugEnabled(track, debug_chat)
            THEN <<SendCall(debug_chat, "draft_cancelled", cur.timestamp,
                            cur.timestamp - last.draft_off_time, TRUE)>>
            ELSE << >>)
        \o <<SaveCall(RestoredStatus(last, cur))>>

\* Lines 270-296
DraftBeginEffects(last, cur, track, debug_chat) ==
    <<SaveCall(DraftStatus(last, cur))>>
    \o (IF DebugEnabled(track, debug_chat)
        THEN <<SendCallPlain(debug_chat, "draft_begin", cur.timestamp, TRUE)>>
        ELSE << >>)

\* Lines 301-333
\* Mutant: the outage is saved before it is announced.
ConfirmEffects_SaveFirst(last, cur, chats, track, debug_chat) ==
    LET duration == cur.timestamp - last.status_changed_at
    IN  <<SaveCall(OutageStatus(last, cur))>>
        \o PrimarySends(chats, "outage", cur.timestamp, duration)
        \o (IF DebugEnabled(track, debug_chat)
            THEN <<SendCallPlain(debug_chat, "draft_confirmed", cur.timestamp, TRUE)>>
            ELSE << >>)

ConfirmEffects(last, cur, chats, track, debug_chat) ==
    LET duration == cur.timestamp - last.status_changed_at
    IN  PrimarySends(chats, "outage", cur.timestamp, duration)
        \o (IF DebugEnabled(track, debug_chat)
            THEN <<SendCallPlain(debug_chat, "draft_confirmed", cur.timestamp, TRUE)>>
            ELSE << >>)
        \o <<SaveCall(OutageStatus(last, cur))>>

\* Mutant: a still-waiting cycle restarts the draft at its own timestamp.
DraftActiveEffects_RestartsDraft(last, cur, chats, track, debug_chat) ==
    LET time_since_draft == cur.timestamp - last.draft_off_time
    IN  IF ConfirmationPassed(time_since_draft)
        THEN ConfirmEffects(last, cur, chats, track, debug_chat)
        ELSE <<SaveCall(DraftStatus(last, cur))>>

\* Lines 298-338
DraftActiveEffects(last, cur, chats, track, debug_chat) ==
    LET time_since_draft == cur.timestamp - last.draft_off_time
    IN  IF ConfirmationPassed(time_since_draft)
        THEN ConfirmEffects(last, cur, chats, track, debug_chat)
        ELSE << >>

\* Mutant: every cycle is taken for the first run.
IsFirstRun_Always(last) == TRUE

\* if not last_status (lines 199-208)
IsFirstRun(last) == last = None

\* monitor_power_status after a successful probe and the load (lines 198-338)
MonitorEffects(last, cur, chats, track, debug_chat) ==
    IF IsFirstRun(last) THEN <<SaveCall(BootstrapStatus(cur))>>
    ELSE IF last.online /\ cur.online THEN <<SaveCall(UnchangedStatus(last, cur))>>
    ELSE IF ~last.online /\ ~cur.online THEN <<SaveCall(UnchangedStatus(last, cur))>>
    ELSE IF ~last.online /\ cur.online
         THEN RestoredEffects(last, cur, chats, track, debug_chat)
    ELSE IF ~Truthy(last, "draft_off_time")
         THEN DraftBeginEffects(last, cur, track, debug_chat)
    ELSE DraftActiveEffects(last, cur, chats, track, debug_chat)

\* last_status.get(...) raises AttributeError when last_status is a
\* non-empty list: it passes 'if not last_status' and fails at line 211
Raises(last) == last # None /\ "list" \in DOMAIN last

\* monitor_power_status: nothing after a failed probe (lines 187-192), else
\* the load (line 194) and what follows from it
CycleCalls(file, cur, chats, track, debug_chat) ==
    IF cur = None THEN << >>
    ELSE IF Raises(load_last_status(file)) THEN <<LoadCall>>
    ELSE <<LoadCall>> \o MonitorEffects(load_last_status(file), cur, chats, track, debug_chat)

(***************************************************************************)
(* Performing the effects.                                                 *)
(***************************************************************************)
IsSend(c) == c.op = "send"
IsSave(c) == c.op = "save"

\* The status file after the calls cs, performed in order, from file.
RECURSIVE FileAfter(_, _)
FileAfter(file, cs) ==
    IF cs = << >> THEN file
    ELSE FileAfter(IF IsSave(Head(cs)) THEN save_status(file, Head(cs).status) ELSE file,
                   Tail(cs))

\* The status file after the calls cs, the save_status calls among them
\* failing.
RECURSIVE FileAfterFailure(_, _, _)
FileAfterFailure(file, cs, failure) ==
    IF cs = << >> THEN file
    ELSE FileAfterFailure(IF IsSave(Head(cs)) THEN save_status_failed(file, failure)
                          ELSE file,
                          Tail(cs), failure)

\* The positions of the sends among the calls cs.
SendIndexes(cs) == {i \in 1..Len(cs) : IsSend(cs[i])}

\* Mutant: after a send that fails, the sends that remain are skipped.
Performed_SkipsAfterFailure(cs, results) ==
    LET failed == {i \in SendIndexes(cs) : ~results[i]}
        keep == {i \in 1..Len(cs) :
                    ~(IsSend(cs[i]) /\ \E f \in failed : f < i)}
        RECURSIVE Kept(_)
        Kept(i) == IF i > Len(cs) THEN << >>
                   ELSE (IF i \in keep THEN <<cs[i]>> ELSE << >>) \o Kept(i + 1)
    IN  Kept(1)

\* Mutant: a send that fails ends the cycle (as if send_message raised).
Performed_StopsAtFailure(cs, results) ==
    LET failed == {i \in SendIndexes(cs) : ~results[i]}
    IN  IF failed = {} THEN cs
        ELSE SubSeq(cs, 1, CHOOSE i \in failed : \A j \in failed : i <= j)

\* The calls a cycle that is not interrupted makes of those its branch
\* holds, given the results of the sends: all of them, since
\* monitor_power_status discards what send_message returns (lines 237, 252,
\* 286, 308, 321) and send_message turns a TelegramError into False.
Performed(cs, results) == cs

\* The calls with the result of each send (send_message returns True, or
\* False on a TelegramError); results[i] is the result of the send at i.
WithResults(cs, results) ==
    [i \in 1..Len(cs) |->
        IF IsSend(cs[i]) THEN [call |-> cs[i], ok |-> results[i]]
        ELSE [call |-> cs[i], ok |-> TRUE]]

\* The same, the save_status calls having failed to write.
WithFailedSaves(cs, results) ==
    [i \in 1..Len(cs) |->
        IF IsSave(cs[i]) THEN [call |-> cs[i], ok |-> FALSE]
        ELSE WithResults(cs, results)[i]]

(***************************************************************************)
(* History of the observed signal: the run of consecutive offline          *)
(* observations (failed probes apart) that is in progress, if any.         *)
(*   since:     timestamp of the run's first offline observation           *)
(*   drafted:   the run began on a record that was online                  *)
(*   before:    that record's status_changed_at                            *)
(*   late:      some observation of the run came                           *)
(*              POWER_OFF_CONFIRMATION_DELAY or more after since           *)
(*   outages:   cycles of the run that sent the outage notification,       *)
(*              counted up to MaxOutages                                   *)
(*   cancelled: some earlier run ended, by an online observation, before   *)
(*              any outage notification                                    *)
(***************************************************************************)
MaxOutages == 2

NoRun ==
    [active |-> FALSE, since |-> 0, drafted |-> FALSE, before |-> 0,
     late |-> FALSE, outages |-> 0, cancelled |-> FALSE]

SendsOutage(cs) == \E i \in SendIndexes(cs) : cs[i].text.template = "outage"

RunAfter(r, last, cur, cs) ==
    IF cur.online
    THEN [NoRun EXCEPT !.cancelled = r.cancelled \/ (r.active /\ r.drafted /\ r.outages = 0)]
    ELSE LET r0 == IF r.active THEN r
                   ELSE [active |-> TRUE, since |-> cur.timestamp,
                         drafted |-> (last # None /\ ~Raises(last) /\ last.online),
                         before |-> (IF last # None /\ ~Raises(last)
                                     THEN last.status_changed_at ELSE 0),
                         late |-> FALSE, outages |-> 0, cancelled |-> r.cancelled]
         IN  [r0 EXCEPT !.late = @ \/ cur.timestamp - r0.since >= POWER_OFF_CONFIRMATION_DELAY,
                        !.outages = IF SendsOutage(cs) /\ @ < MaxOutages THEN @ + 1 ELSE @]

(***************************************************************************)
(* Overlapping invocations.  PowerMonitor.run (cron) starts a new process  *)
(* for every invocation, and nothing in monitor_power_status, run or       *)
(* start_monitoring takes a lock: two processes can be inside              *)
(* monitor_power_status at once.  Each is at one of:                       *)
(*   "idle":  not inside (its last invocation, if any, has returned)       *)
(*   "load":  the probe has answered, load_last_status is next (line 194)  *)
(*   "act":   the record is loaded, the calls in todo remain               *)
(*   "write": inside save_status, the file opened (and truncated), the     *)
(*            text not yet written (lines 129-130)                         *)
(***************************************************************************)
Procs == {1, 2}

\* The gaps between the entries of overlapping invocations and the probe
\* responses they receive.
OverlapSteps == {0, 600}
OverlapResponses == {"online", "offline"}

Idle == [pc |-> "idle", cur |-> None, saw |-> None, loaded |-> None,
         todo |-> << >>, done |-> << >>]

InFlight(p) == inflight[p].pc # "idle"

(***************************************************************************)
(* History of what the cycles announced: <<before, latest>>.  latest is    *)
(* the latest event: a cycle's dispatch of a primary notification          *)
(* ("outage", "restored"), or a bootstrap, which announces nothing and     *)
(* records the first observation ("booted_online", "booted_offline");      *)
(* before is the primary notification dispatched just before the latest    *)
(* one, "none" if the latest event is not a notification or had a          *)
(* bootstrap or nothing before it.  The history is that of cycles that ran *)
(* to their end: it is dropped once a cycle is killed.                     *)
(***************************************************************************)
PrimaryTemplates == {"outage", "restored"}

NothingAnnounced == <<"none", "none">>

AnnouncedAfter(a, last, cur, cs) ==
    LET sent == {cs[i].text.template : i \in SendIndexes(cs)} \cap PrimaryTemplates
    IN  IF sent # {}
        THEN <<IF a[2] \in PrimaryTemplates THEN a[2] ELSE "none",
               CHOOSE t \in sent : TRUE>>
        ELSE IF cur # None /\ last = None /\ \E i \in 1..Len(cs) : IsSave(cs[i])
        THEN <<"none", IF cur.online THEN "booted_online" ELSE "booted_offline">>
        ELSE a

(***************************************************************************)
(* PowerMonitor.start_monitoring: one cycle at once, then forever a sleep  *)
(* of interval_minutes * 60 seconds and a cycle.  pc is "off" (not         *)
(* called), "due" (the next statement is a cycle), "sleeping" (a cycle     *)
(* returned, the sleep is in progress) or "stopped" (an exception left the *)
(* coroutine).                                                             *)
(***************************************************************************)
\* The argument of start_monitoring.
interval_minutes == 5

NotStarted == [pc |-> "off", cycles |-> 0]

(***************************************************************************)
(* Database: the notification_chats column of user_settings.  The table    *)
(* gives each user's row, None for no row; the column holds the JSON text  *)
(* of a list.                                                              *)
(***************************************************************************)
Users == {1, 2}
ChatIds == {10, 20, 30}

\* json.dumps and json.loads of a list of integers
json_dumps(list) == [json |-> "list", items |-> list]
json_loads(text) == text.items

\* The column's DEFAULT '[]'
DefaultChats == json_dumps(<< >>)

\* create_user_settings: INSERT OR IGNORE of a row of defaults
create_user_settings(table, user_id) ==
    IF table[user_id] = None THEN [table EXCEPT ![user_id] = DefaultChats] ELSE table

\* get_user_settings: the table after the call (a missing row is created)
\* and the notification_chats it returns
get_user_settings(table, user_id) ==
    LET after == create_user_settings(table, user_id)
    IN  [table |-> after, notification_chats |-> json_loads(after[user_id])]

\* update_user_settings(user_id, notification_chats=chats): UPDATE ... WHERE
\* user_id = ?
update_user_settings(table, user_id, chats) ==
    IF table[user_id] = None THEN table
    ELSE [table EXCEPT ![user_id] = json_dumps(chats)]

In(chat_id, chats) == \E i \in 1..Len(chats) : chats[i] = chat_id

\* list.remove: the first occurrence is removed
Remove(chats, chat_id) ==
    LET first == CHOOSE i \in 1..Len(chats) :
                     chats[i] = chat_id /\ \A j \in 1..(i - 1) : chats[j] # chat_id
    IN  SubSeq(chats, 1, first - 1) \o SubSeq(chats, first + 1, Len(chats))

\* Mutant: the chat id is appended without the membership test.
add_notification_chat_Appends(table, user_id, chat_id) ==
    LET settings == get_user_settings(table, user_id)
    IN  update_user_settings(settings.table, user_id,
                             Append(settings.notification_chats, chat_id))

add_notification_chat(table, user_id, chat_id) ==
    LET settings == get_user_settings(table, user_id)
        chats == settings.notification_chats
    IN  IF ~In(chat_id, chats)
        THEN update_user_settings(settings.table, user_id, Append(chats, chat_id))
        ELSE settings.table

remove_notification_chat(table, user_id, chat_id) ==
    LET settings == get_user_settings(table, user_id)
        chats == settings.notification_chats
    IN  IF In(chat_id, chats)
        THEN update_user_settings(settings.table, user_id, Remove(chats, chat_id))
        ELSE settings.table

(***************************************************************************)
(* The state machine.                                                      *)
(***************************************************************************)
InitAt(start) ==
    /\ now = start
    /\ response = "none"
    /\ status_file = None
    /\ power_chat_ids \in PowerChatLists
    /\ debug_chat_id \in DebugChatIds
    /\ log_track \in BOOLEAN
    /\ current_status = None
    /\ last_status = None
    /\ calls = << >>
    /\ ending = "none"
    /\ run = NoRun
    /\ kills = 0
    /\ inflight = [p \in Procs |-> Idle]
    /\ overlapped = FALSE
    /\ duration_seconds = 0
    /\ duration_str = format_duration(0)
    /\ current_time = <<0, 0, 0, 0>>
    /\ restricted = is_restricted_time(<<0, 0, 0, 0>>)
    /\ menu_duration_str = BotMenuHandler_format_duration(0)
    /\ delivery = [chat_id |-> "", default_chat_id |-> "", time |-> <<0, 0, 0, 0>>,
                   force_send |-> FALSE, accepted |-> FALSE, outcome |-> Raised]
    /\ announced = NothingAnnounced
    /\ loop = NotStarted
    /\ user_settings = [u \in Users |-> None]
    /\ last_op = [u \in Users |-> [c \in ChatIds |-> "none"]]

\* The clock starts at StartTime.
Init == InitAt(StartTime)

\* Mutant: an exception of save_status leaves monitor_power_status.
Ending_SaveFailureRaises(last, killed, failure) ==
    IF killed THEN "killed"
    ELSE IF Raises(last) \/ failure # "none" THEN "raised"
    ELSE "returned"

\* How an invocation ends.  The exceptions of the probe and of the file
\* functions are caught where they arise (lines 101, 116, 131) and a
\* rejected message makes send_message return False, so that only the
\* processing of a loaded value that is no dict raises.
Ending(last, killed, failure) ==
    IF killed THEN "killed"
    ELSE IF Raises(last) THEN "raised"
    ELSE "returned"

\* One invocation of monitor_power_status, dt seconds after the previous one,
\* the probe receiving resp.  An invocation that is killed stops after some
\* of its calls, before the last one.
Invocation(dt, resp, killed) ==
    /\ now' = now + dt
    /\ response' = resp
    /\ UNCHANGED <<power_chat_ids, debug_chat_id, log_track, inflight, overlapped,
                 duration_seconds, duration_str, current_time, restricted,
                 menu_duration_str, delivery, user_settings, last_op>>
    /\ LET cur == check_power_status(resp, now + dt)
           last == IF cur = None THEN None ELSE load_last_status(status_file)
           cs == CycleCalls(status_file, cur, power_chat_ids, log_track, debug_chat_id)
       IN  /\ current_status' = cur
           /\ last_status' = last
           /\ \E results \in [SendIndexes(cs) -> BOOLEAN] :
                  LET all == Performed(cs, results)
                  IN  \E n \in (IF killed THEN 0..(Len(all) - 1) ELSE {Len(all)}) :
                         LET done == SubSeq(all, 1, n)
                         IN  /\ \A i \in SendIndexes(cs) : i > n => results[i]
                             /\ calls' = WithResults(done, results)
                             /\ status_file' = FileAfter(status_file, done)
                             /\ announced' = IF killed \/ kills > 0
                                             THEN NothingAnnounced
                                             ELSE AnnouncedAfter(announced, last,
                                                                 cur, done)
                             /\ run' = IF cur = None THEN run
                                       ELSE RunAfter(run, last, cur, done)
           /\ ending' = Ending(last, killed, "none")

\* A cycle that runs to its end.
MonitorPowerStatus(dt, resp) ==
    /\ now + dt <= StartTime + Horizon
    /\ Invocation(dt, resp, FALSE)
    /\ UNCHANGED <<kills, loop>>

\* A cycle whose process is stopped (killed, power cut) between two calls.
KilledCycle(dt, resp) ==
    /\ now + dt <= StartTime + Horizon
    /\ kills < MaxKills
    /\ kills' = kills + 1
    /\ Invocation(dt, resp, TRUE)
    /\ UNCHANGED loop

\* One invocation of monitor_power_status that runs to its end and whose
\* save_status call cannot write.
FailedSaveInvocation(dt, resp, failure) ==
    /\ now' = now + dt
    /\ response' = resp
    /\ UNCHANGED <<power_chat_ids, debug_chat_id, log_track, kills, inflight, overlapped,
                 duration_seconds, duration_str, current_time, restricted,
                 menu_duration_str, delivery, user_settings, last_op>>
    /\ LET cur == check_power_status(resp, now + dt)
           last == IF cur = None THEN None ELSE load_last_status(status_file)
           cs == CycleCalls(status_file, cur, power_chat_ids, log_track, debug_chat_id)
       IN  /\ \E i \in 1..Len(cs) : IsSave(cs[i])
           /\ current_status' = cur
           /\ last_status' = last
           /\ \E results \in [SendIndexes(cs) -> BOOLEAN] :
                  /\ calls' = WithFailedSaves(Performed(cs, results), results)
                  /\ status_file' = FileAfterFailure(status_file, Performed(cs, results),
                                                     failure)
                  /\ run' = RunAfter(run, last, cur, Performed(cs, results))
                  /\ announced' = AnnouncedAfter(announced, last, cur,
                                                Performed(cs, results))
           /\ ending' = Ending(last, FALSE, failure)

\* A cycle whose save_status call cannot write.
FailedSaveCycle(dt, resp, failure) ==
    /\ now + dt <= StartTime + Horizon
    /\ FailedSaveInvocation(dt, resp, failure)
    /\ UNCHANGED loop

\* Something other than save_status rewrites the status file (a disk fault,
\* an editor, another program).
CorruptFile(text) ==
    /\ status_file # text
    /\ status_file' = text
    /\ response' = "none"
    /\ current_status' = None
    /\ last_status' = None
    /\ calls' = << >>
    /\ ending' = "none"
    /\ UNCHANGED <<now, power_chat_ids, debug_chat_id, log_track, run, kills,
                   inflight, overlapped, duration_seconds, duration_str, current_time,
                   restricted, menu_duration_str, delivery, announced, loop,
                   user_settings, last_op>>

Next ==
    \E dt \in Steps, resp \in Responses : MonitorPowerStatus(dt, resp)

\* Cycles one after another, none interrupted, the file written by
\* save_status alone.
Spec == Init /\ [][Next]_vars

\* Cycles one after another, any of which may be killed midway; two primary
\* chats, draft tracking on, with and without a debug chat.
InitKilled ==
    /\ Init
    /\ power_chat_ids = <<"c1", "c2">>
    /\ log_track

NextKilled ==
    \/ Next
    \/ \E dt \in Steps, resp \in Responses : KilledCycle(dt, resp)

SpecKilled == InitKilled /\ [][NextKilled]_vars

\* Cycles one after another, between which the file may be corrupted.
NextCorrupt ==
    \/ Next
    \/ \E text \in CorruptTexts : CorruptFile(text)

SpecCorrupt == Init /\ [][NextCorrupt]_vars

\* What the actions of overlapping invocations leave alone: the trace of the
\* last sequential cycle and the configuration.
UnchangedByOverlap ==
    UNCHANGED <<response, power_chat_ids, debug_chat_id, log_track,
                current_status, last_status, calls, ending, run, kills,
                duration_seconds, duration_str, current_time, restricted,
                menu_duration_str, delivery, announced, loop, user_settings, last_op>>

\* Process p enters monitor_power_status dt seconds after the latest entry
\* and its probe receives resp (lines 183-192).
Begin(p, dt, resp) ==
    /\ ~InFlight(p)
    /\ now + dt <= StartTime + Horizon
    /\ now' = now + dt
    /\ LET cur == check_power_status(resp, now + dt)
       IN  inflight' = [inflight EXCEPT ![p] =
                           [Idle EXCEPT !.pc = IF cur = None THEN "idle" ELSE "load",
                                        !.cur = cur]]
    /\ overlapped' = (overlapped \/ \E q \in Procs \ {p} : InFlight(q))
    /\ UNCHANGED status_file
    /\ UnchangedByOverlap

\* Process p loads the record (line 194) and decides (lines 196-338).
LoadStep(p) ==
    /\ inflight[p].pc = "load"
    /\ LET cs == CycleCalls(status_file, inflight[p].cur, power_chat_ids,
                            log_track, debug_chat_id)
       IN  inflight' = [inflight EXCEPT ![p] =
                           [@ EXCEPT !.pc = IF Len(cs) > 1 THEN "act" ELSE "idle",
                                     !.saw = status_file,
                                     !.loaded = load_last_status(status_file),
                                     !.todo = Tail(cs),
                                     !.done = <<LoadCall>>]]
    /\ UNCHANGED <<now, status_file, overlapped>>
    /\ UnchangedByOverlap

\* Process p makes its next call, a send_message.
SendStep(p) ==
    /\ inflight[p].pc = "act"
    /\ IsSend(Head(inflight[p].todo))
    /\ inflight' = [inflight EXCEPT ![p] =
                       [@ EXCEPT !.pc = IF Len(inflight[p].todo) > 1 THEN "act" ELSE "idle",
                                 !.todo = Tail(@),
                                 !.done = Append(@, Head(inflight[p].todo))]]
    /\ UNCHANGED <<now, status_file, overlapped>>
    /\ UnchangedByOverlap

\* Process p enters save_status: open(self.status_file, 'w') truncates the
\* file (line 129).
OpenStep(p) ==
    /\ inflight[p].pc = "act"
    /\ IsSave(Head(inflight[p].todo))
    /\ status_file' = EmptyText
    /\ inflight' = [inflight EXCEPT ![p].pc = "write"]
    /\ UNCHANGED <<now, overlapped>>
    /\ UnchangedByOverlap

\* Process p writes the text and closes the file (line 130).  The text is
\* written from offset 0: onto a file that is still empty it is the whole
\* content; onto a text another process wrote since p opened the file, the
\* content is p's text, followed by the rest of the other text when that one
\* is longer, which is not JSON.
WriteStep(p) ==
    /\ inflight[p].pc = "write"
    /\ LET text == save_status(status_file, Head(inflight[p].todo).status)
       IN  status_file' \in (IF status_file = EmptyText THEN {text}
                             ELSE {text, GarbageText})
    /\ inflight' = [inflight EXCEPT ![p] =
                       [@ EXCEPT !.pc = IF Len(inflight[p].todo) > 1 THEN "act" ELSE "idle",
                                 !.todo = Tail(@),
                                 !.done = Append(@, Head(inflight[p].todo))]]
    /\ UNCHANGED <<now, overlapped>>
    /\ UnchangedByOverlap

\* Two processes invoking monitor_power_status with no mutual exclusion; one
\* primary chat, no draft tracking.
InitOverlap ==
    /\ Init
    /\ power_chat_ids = <<"c1">>
    /\ debug_chat_id = ""
    /\ ~log_track

NextOverlap ==
    \E p \in Procs :
        \/ \E dt \in OverlapSteps, resp \in OverlapResponses : Begin(p, dt, resp)
        \/ LoadStep(p)
        \/ SendStep(p)
        \/ OpenStep(p)
        \/ WriteStep(p)

SpecOverlap == InitOverlap /\ [][NextOverlap]_vars

\* What the calls of the pure functions leave alone.
UnchangedByCall ==
    UNCHANGED <<now, response, status_file, power_chat_ids, debug_chat_id, log_track,
                current_status, last_status, calls, ending, run, kills,
                inflight, overlapped, announced, loop, user_settings, last_op>>

\* The durations format_duration is called with: days, hours, minutes and
\* seconds taken from these.
DayCounts == {0, 1, 2, 4, 5, 21, 22}
HourCounts == {0, 1, 23}
MinuteCounts == {0, 1, 59}
SecondCounts == {0, 59}

Durations ==
    {((d * 24 + h) * 60 + m) * 60 + x :
        d \in DayCounts, h \in HourCounts, m \in MinuteCounts, x \in SecondCounts}

\* The times of day _is_restricted_time is called at.
TimesOfDay == {0, 12, 23} \X {0, 29, 30, 31} \X {0, 1, 59} \X {0, 1}

\* format_duration(s) is called.
FormatDuration(s) ==
    /\ duration_seconds' = s
    /\ duration_str' = format_duration(s)
    /\ menu_duration_str' = BotMenuHandler_format_duration(s)
    /\ UNCHANGED <<current_time, restricted, delivery>>
    /\ UnchangedByCall

\* _is_restricted_time() is called at time of day t.
IsRestrictedTime(t) ==
    /\ current_time' = t
    /\ restricted' = is_restricted_time(t)
    /\ UNCHANGED <<duration_seconds, duration_str, menu_duration_str, delivery>>
    /\ UnchangedByCall

\* The arguments of send_message called on its own, TELEGRAM_CHAT_ID and the
\* times of day of the call.
GivenChatIds == {"", "c1"}
DefaultChatIds == {"", "d"}
SendTimes ==
    {<<0, 0, 0, 0>>, <<0, 30, 0, 0>>, <<0, 30, 0, 1>>, <<12, 0, 0, 0>>,
     <<23, 29, 59, 999999>>, <<23, 30, 0, 0>>, <<23, 59, 59, 999999>>, <<1, 0, 0, 0>>}

\* send_message(text, chat_id, silent_mode, force_send) is called at time of
\* day t.
SendMessage(chat_id, default_chat_id, t, force_send, accepted) ==
    /\ delivery' = [chat_id |-> chat_id, default_chat_id |-> default_chat_id,
                    time |-> t, force_send |-> force_send, accepted |-> accepted,
                    outcome |-> send_message(chat_id, default_chat_id, t,
                                             force_send, accepted)]
    /\ UNCHANGED <<duration_seconds, duration_str, menu_duration_str,
                   current_time, restricted>>
    /\ UnchangedByCall

\* The pure functions, called on their own with any of the inputs.
InitCalls ==
    /\ Init
    /\ power_chat_ids = << >>
    /\ debug_chat_id = ""
    /\ ~log_track

NextCalls ==
    \/ \E s \in Durations : FormatDuration(s)
    \/ \E t \in TimesOfDay : IsRestrictedTime(t)

SpecCalls == InitCalls /\ [][NextCalls]_vars

\* send_message called on its own with any of the inputs.
NextSend ==
    \E chat_id \in GivenChatIds, default_chat_id \in DefaultChatIds,
       t \in SendTimes, force_send \in BOOLEAN, accepted \in BOOLEAN :
       SendMessage(chat_id, default_chat_id, t, force_send, accepted)

SpecSend == InitCalls /\ [][NextSend]_vars

\* Cycles one after another, in any of which save_status may fail to write;
\* one primary chat, with and without draft tracking to a debug chat.
InitPersist ==
    /\ Init
    /\ power_chat_ids = <<"c1">>
    /\ debug_chat_id = "dbg"

NextPersist ==
    \/ Next
    \/ \E dt \in Steps, resp \in Responses, failure \in SaveFailures :
          FailedSaveCycle(dt, resp, failure)

SpecPersist == InitPersist /\ [][NextPersist]_vars

\* Cycles one after another on a clock that starts at the epoch, unix time
\* 0; one primary chat, no draft tracking.
InitEpoch ==
    /\ InitAt(0)
    /\ power_chat_ids = <<"c1">>
    /\ debug_chat_id = ""
    /\ ~log_track

SpecEpoch == InitEpoch /\ [][Next]_vars

\* start_monitoring is called.
StartMonitoring ==
    /\ loop.pc = "off"
    /\ loop' = [pc |-> "due", cycles |-> 0]
    /\ UNCHANGED <<now, response, status_file, power_chat_ids, debug_chat_id,
                   log_track, current_status, last_status, calls, ending, run,
                   kills, inflight, overlapped, duration_seconds, duration_str,
                   current_time, restricted, menu_duration_str, delivery,
                   announced, user_settings, last_op>>

\* await self.monitor_power_status() in start_monitoring (lines 365, 369):
\* the cycle runs to its end, its probe receiving resp, its save_status
\* failing or not; an exception that leaves it leaves start_monitoring too.
LoopCycle(resp) ==
    /\ loop.pc = "due"
    /\ \/ Invocation(0, resp, FALSE) /\ UNCHANGED kills
       \/ \E failure \in SaveFailures : FailedSaveInvocation(0, resp, failure)
    /\ loop' = [pc |-> IF ending' = "returned" THEN "sleeping" ELSE "stopped",
                cycles |-> loop.cycles + 1]

\* await asyncio.sleep(interval_minutes * 60) (line 368)
LoopSleep ==
    /\ loop.pc = "sleeping"
    /\ now + interval_minutes * 60 <= StartTime + Horizon
    /\ now' = now + interval_minutes * 60
    /\ loop' = [loop EXCEPT !.pc = "due"]
    /\ UNCHANGED <<response, status_file, power_chat_ids, debug_chat_id,
                   log_track, current_status, last_status, calls, ending, run,
                   kills, inflight, overlapped, duration_seconds, duration_str,
                   current_time, restricted, menu_duration_str, delivery,
                   announced, user_settings, last_op>>

\* The long-running mode: one primary chat, draft tracking to a debug chat.
InitLoop ==
    /\ Init
    /\ power_chat_ids = <<"c1">>
    /\ debug_chat_id = "dbg"
    /\ log_track

NextLoop ==
    \/ StartMonitoring
    \/ \E resp \in Responses : LoopCycle(resp)
    \/ LoopSleep

SpecLoop == InitLoop /\ [][NextLoop]_vars

\* The event loop runs a coroutine that can run: the statement
\* start_monitoring is at is executed eventually.
SpecLoopFair == SpecLoop /\ WF_vars(NextLoop)

\* What the calls on the settings table leave alone.
UnchangedBySettings ==
    UNCHANGED <<now, response, status_file, power_chat_ids, debug_chat_id,
                log_track, current_status, last_status, calls, ending, run,
                kills, inflight, overlapped, duration_seconds, duration_str,
                current_time, restricted, menu_duration_str, delivery,
                announced, loop>>

\* add_notification_chat(user_id, chat_id) is called.
AddNotificationChat(user_id, chat_id) ==
    /\ user_settings' = add_notification_chat(user_settings, user_id, chat_id)
    /\ last_op' = [last_op EXCEPT ![user_id][chat_id] = "add"]
    /\ UnchangedBySettings

\* remove_notification_chat(user_id, chat_id) is called.
RemoveNotificationChat(user_id, chat_id) ==
    /\ user_settings' = remove_notification_chat(user_settings, user_id, chat_id)
    /\ last_op' = [last_op EXCEPT ![user_id][chat_id] = "remove"]
    /\ UnchangedBySettings

\* The calls on the settings table, one at a time, the table empty at first.
NextSettings ==
    \E user_id \in Users, chat_id \in ChatIds :
        \/ AddNotificationChat(user_id, chat_id)
        \/ RemoveNotificationChat(user_id, chat_id)

SpecSettings == InitCalls /\ [][NextSettings]_vars

(***************************************************************************)
(* Vocabulary of the properties.                                           *)
(***************************************************************************)
\* The three logical states of a record, by the presence of its fields.
HasDraft(d) == "draft_off_time" \in DOMAIN d
IsOnline(d) == d # None /\ d.online /\ ~HasDraft(d)
IsDraftOffline(d) == d # None /\ d.online /\ HasDraft(d)
IsConfirmedOffline(d) == d # None /\ ~d.online

\* The record the status file holds.
persisted == load_last_status(status_file)

\* The last cycle's probe succeeded.
Observed == current_status # None

\* The send_message calls of the last cycle, in order; the primary ones.
Sent ==
    LET s == SelectSeq(calls, LAMBDA c : IsSend(c.call))
    IN  [i \in 1..Len(s) |-> s[i].call]
IsPrimary(c) == c.text.template \in {"outage", "restored"}
PrimarySent == SelectSeq(Sent, LAMBDA c : IsPrimary(c))

\* The primary sends are exactly one per configured chat, in order, of the
\* template and with the formatted duration.
PrimarySentIs(template, duration) ==
    /\ Len(PrimarySent) = Len(power_chat_ids)
    /\ \A i \in 1..Len(PrimarySent) :
          /\ PrimarySent[i].chat_id = power_chat_ids[i]
          /\ PrimarySent[i].text.template = template
          /\ PrimarySent[i].text.duration_str = format_duration(duration)

(***************************************************************************)
(* C1 Bootstrap: a successful observation processed when no record exists  *)
(* persists online = O.online, status_changed_at = O.timestamp, no         *)
(* draft_off_time, and sends no notification at all.                       *)
(***************************************************************************)
C1_Bootstrap ==
    (Observed /\ last_status = None) =>
        /\ persisted # None
        /\ persisted.online = current_status.online
        /\ persisted.status_changed_at = current_status.timestamp
        /\ ~HasDraft(persisted)
        /\ Sent = << >>

\* An offline first observation was bootstrapped, debug messages enabled.
C1_Witness ==
    /\ Observed /\ last_status = None
    /\ ~current_status.online
    /\ log_track /\ debug_chat_id # "" /\ power_chat_ids # << >>

(***************************************************************************)
(* C2 Debounce waiting: with a draft begun at t0, an offline observation   *)
(* at less than POWER_OFF_CONFIRMATION_DELAY after t0 leaves online,       *)
(* status_changed_at and draft_off_time as they were and sends no primary  *)
(* notification.                                                           *)
(***************************************************************************)
C2_Waiting ==
    (/\ Observed /\ IsDraftOffline(last_status) /\ ~current_status.online
     /\ current_status.timestamp - last_status.draft_off_time < POWER_OFF_CONFIRMATION_DELAY)
    =>  /\ persisted # None
        /\ persisted.online = last_status.online
        /\ persisted.status_changed_at = last_status.status_changed_at
        /\ HasDraft(persisted)
        /\ persisted.draft_off_time = last_status.draft_off_time
        /\ PrimarySent = << >>

\* A waiting cycle one second short of the delay.
C2_Witness ==
    /\ Observed /\ IsDraftOffline(last_status) /\ ~current_status.online
    /\ current_status.timestamp - last_status.draft_off_time = POWER_OFF_CONFIRMATION_DELAY - 1
    /\ power_chat_ids # << >>

(***************************************************************************)
(* C3 Outage confirmation, inclusive boundary: with a draft begun at t0,   *)
(* an offline observation at POWER_OFF_CONFIRMATION_DELAY or more after t0 *)
(* sends the outage notification to the primary chats with the duration    *)
(* observedAt - status_changed_at (formatted), and persists online=false,  *)
(* status_changed_at = observedAt, no draft_off_time.                      *)
(***************************************************************************)
C3_Confirmation ==
    (/\ Observed /\ IsDraftOffline(last_status) /\ ~current_status.online
     /\ current_status.timestamp - last_status.draft_off_time >= POWER_OFF_CONFIRMATION_DELAY)
    =>  /\ PrimarySentIs("outage", current_status.timestamp - last_status.status_changed_at)
        /\ persisted # None
        /\ persisted.online = FALSE
        /\ persisted.status_changed_at = current_status.timestamp
        /\ ~HasDraft(persisted)

\* A confirmation exactly on the boundary, with chats to notify and a
\* duration longer than the draft.
C3_Witness ==
    /\ Observed /\ IsDraftOffline(last_status) /\ ~current_status.online
    /\ current_status.timestamp - last_status.draft_off_time = POWER_OFF_CONFIRMATION_DELAY
    /\ last_status.status_changed_at < last_status.draft_off_time
    /\ Len(PrimarySent) = 2

C5_ImmediateRecovery ==
    (Observed /\ IsConfirmedOffline(last_status) /\ current_status.online)
    =>  /\ PrimarySentIs("restored", current_status.timestamp - last_status.status_changed_at)
        /\ persisted # None
        /\ persisted.online = TRUE
        /\ persisted.status_changed_at = current_status.timestamp
        /\ ~HasDraft(persisted)

\* A restoration in the very second the outage had been confirmed.
C5_Witness ==
    /\ Observed /\ IsConfirmedOffline(last_status) /\ current_status.online
    /\ current_status.timestamp = last_status.status_changed_at
    /\ run.cancelled
    /\ Len(PrimarySent) = 2

(***************************************************************************)
(* C6 Draft cancellation: from a record with a draft begun at t0, an       *)
(* online observation, before t0 + POWER_OFF_CONFIRMATION_DELAY or later,  *)
(* persists online=true without draft_off_time and with the                *)
(* status_changed_at the record had before the draft began, and sends no   *)
(* primary notification.                                                   *)
(***************************************************************************)
C6_DraftCancellation ==
    [][(IsDraftOffline(persisted) /\ response' = "online")
       =>  /\ run.active /\ run.drafted /\ run.since = persisted.draft_off_time
           /\ persisted' # None
           /\ persisted'.online = TRUE
           /\ ~HasDraft(persisted')
           /\ persisted'.status_changed_at = run.before
           /\ PrimarySent' = << >>]_vars

\* A draft cancelled after the delay had passed: the streak began before
\* the draft, which no offline observation came to confirm.
C6_Witness ==
    /\ Observed /\ IsDraftOffline(last_status) /\ current_status.online
    /\ current_status.timestamp - last_status.draft_off_time >= POWER_OFF_CONFIRMATION_DELAY
    /\ last_status.status_changed_at < last_status.draft_off_time
    /\ power_chat_ids # << >>

(***************************************************************************)
(* C7 Flap suppression: a cycle sends the outage notification only if the  *)
(* persisted draft start t0 is the first of an unbroken run of offline     *)
(* observations and the observation comes POWER_OFF_CONFIRMATION_DELAY or  *)
(* more after t0; a pending draft is always the one begun by the first     *)
(* offline observation of the run in progress, so a cancelled draft never  *)
(* counts towards a later outage.                                          *)
(***************************************************************************)
C7_FlapSuppression ==
    /\ PrimarySent # << >> /\ PrimarySent[1].text.template = "outage"
       =>  /\ run.active /\ run.drafted
           /\ IsDraftOffline(last_status)
           /\ last_status.draft_off_time = run.since
           /\ current_status.timestamp - run.since >= POWER_OFF_CONFIRMATION_DELAY
    /\ IsDraftOffline(persisted)
       =>  /\ run.active /\ run.drafted
           /\ persisted.draft_off_time = run.since

\* An outage is confirmed after an earlier draft had been cancelled: the
\* uptime reported exceeds the time since the first draft would allow.
C7_Witness ==
    /\ run.cancelled
    /\ PrimarySent # << >> /\ PrimarySent[1].text.template = "outage"
    /\ last_status.status_changed_at < run.since

(***************************************************************************)
(* C8 Begin draft: from a record with online=true and no draft, an offline *)
(* observation persists online=true, draft_off_time = observedAt and the   *)
(* same status_changed_at, and sends no primary notification.              *)
(***************************************************************************)
C8_BeginDraft ==
    (Observed /\ IsOnline(last_status) /\ ~current_status.online)
    =>  /\ persisted # None
        /\ persisted.online = TRUE
        /\ HasDraft(persisted)
        /\ persisted.draft_off_time = current_status.timestamp
        /\ persisted.status_changed_at = last_status.status_changed_at
        /\ PrimarySent = << >>

\* A draft begun some time into an online streak, with chats to notify.
C8_Witness ==
    /\ Observed /\ IsOnline(last_status) /\ ~current_status.online
    /\ current_status.timestamp > last_status.status_changed_at
    /\ power_chat_ids # << >> /\ log_track /\ debug_chat_id # ""

(***************************************************************************)
(* C9 Stability: from a record that is not a draft, an observation with    *)
(* the record's online value preserves status_changed_at and online,       *)
(* creates no draft and sends no notification.                             *)
(***************************************************************************)
C9_Stability ==
    (/\ Observed /\ last_status # None /\ ~HasDraft(last_status)
     /\ current_status.online = last_status.online)
    =>  /\ persisted # None
        /\ persisted.online = last_status.online
        /\ persisted.status_changed_at = last_status.status_changed_at
        /\ ~HasDraft(persisted)
        /\ Sent = << >>

\* A confirmed-offline record met a later offline observation, debug on.
C9_Witness ==
    /\ Observed /\ IsConfirmedOffline(last_status) /\ ~current_status.online
    /\ current_status.timestamp > last_status.status_changed_at
    /\ power_chat_ids # << >> /\ log_track /\ debug_chat_id # ""

(***************************************************************************)
(* C10 Failed probe is a no-op: when the probe fails, the cycle loads      *)
(* nothing, saves nothing and sends nothing; the status file is the same   *)
(* before and after, whatever it holds.                                    *)
(***************************************************************************)
C10_FailedProbeNoOp ==
    [][response' = "error" => (status_file' = status_file /\ calls' = << >>)]_vars

\* A probe failed while a draft was pending.
C10_Witness ==
    /\ response = "error" /\ calls = << >>
    /\ IsDraftOffline(persisted)
    /\ now > persisted.draft_off_time

(***************************************************************************)
(* C11 State invariant: every record the status file holds, after any      *)
(* sequence of cycles from no record, has draft_off_time only if online is *)
(* true.                                                                   *)
(***************************************************************************)
C11_DraftOnlyWhileOnline ==
    /\ persisted # None => (HasDraft(persisted) => persisted.online = TRUE)
    /\ \A i \in 1..Len(calls) :
          IsSave(calls[i].call) =>
              (HasDraft(calls[i].call.status) => calls[i].call.status.online = TRUE)

\* A record with a draft is held, after an outage and a restoration.
C11_Witness ==
    /\ persisted # None /\ HasDraft(persisted)
    /\ persisted.status_changed_at > StartTime
    /\ persisted.draft_off_time > persisted.status_changed_at

(***************************************************************************)
(* C12 Timestamp invariant: the clock never going back, the record held    *)
(* has status_changed_at at most the timestamp of every observation        *)
(* processed after it was written (every such timestamp is at least the    *)
(* clock when it was written), and a draft_off_time between                *)
(* status_changed_at and that timestamp.                                   *)
(***************************************************************************)
C12_TimestampOrder ==
    /\ persisted # None =>
          /\ persisted.status_changed_at <= persisted.timestamp
          /\ persisted.timestamp <= now
          /\ HasDraft(persisted) =>
                /\ persisted.status_changed_at <= persisted.draft_off_time
                /\ persisted.draft_off_time <= persisted.timestamp
    /\ (Observed /\ last_status # None) =>
          /\ last_status.status_changed_at <= current_status.timestamp
          /\ HasDraft(last_status) =>
                /\ last_status.status_changed_at <= last_status.draft_off_time
                /\ last_status.draft_off_time <= current_status.timestamp

\* An observation was processed some time after a record with a draft that
\* began some time into the streak.
C12_Witness ==
    /\ Observed /\ last_status # None /\ HasDraft(last_status)
    /\ last_status.status_changed_at < last_status.draft_off_time
    /\ last_status.draft_off_time < current_status.timestamp

\* The positions in the last cycle's calls of the save_status calls, of the
\* sends, and of the sends of a primary notification.
SaveIndexes == {i \in 1..Len(calls) : IsSave(calls[i].call)}

SentIndexes == {i \in 1..Len(calls) : IsSend(calls[i].call)}

PrimaryIndexes == {i \in SentIndexes : IsPrimary(calls[i].call)}

(***************************************************************************)
(* C13 Persist once per observed cycle: a cycle whose probe succeeded      *)
(* calls save_status exactly once, whatever its branch, the still-waiting  *)
(* branch of an open draft included; a cycle whose probe failed calls it   *)
(* zero times.                                                             *)
(***************************************************************************)
C13_SaveExactlyOnce ==
    ending = "returned" =>
        Cardinality(SaveIndexes) = (IF Observed THEN 1 ELSE 0)

\* The cycle that diverges: an offline observation with a draft open for less
\* than the delay returns without any save_status call.
C13_Witness ==
    /\ ending = "returned" /\ Observed /\ ~current_status.online
    /\ last_status # None /\ IsDraftOffline(last_status)
    /\ current_status.timestamp - last_status.draft_off_time
          < POWER_OFF_CONFIRMATION_DELAY
    /\ SaveIndexes = {}

(***************************************************************************)
(* C14 Dispatch before commit: in a cycle that confirms an outage or a     *)
(* restoration, every send of the primary notification is made before the  *)
(* save_status call, which the cycle does make.                            *)
(***************************************************************************)
C14_DispatchBeforeCommit ==
    (/\ ending = "returned" /\ Observed /\ last_status # None
     /\ \/ ~last_status.online /\ current_status.online
        \/ /\ IsDraftOffline(last_status) /\ ~current_status.online
           /\ current_status.timestamp - last_status.draft_off_time
                 >= POWER_OFF_CONFIRMATION_DELAY)
    => /\ Cardinality(SaveIndexes) = 1
       /\ Cardinality(PrimaryIndexes) = Len(power_chat_ids)
       /\ \A i \in PrimaryIndexes : \A j \in SaveIndexes : i < j

\* An outage is confirmed to two recipients and then saved.
C14_Witness ==
    /\ ending = "returned" /\ Cardinality(PrimaryIndexes) = 2
    /\ \A i \in PrimaryIndexes : calls[i].call.text.template = "outage"
    /\ persisted # None /\ IsConfirmedOffline(persisted)
    /\ persisted.timestamp = now

(***************************************************************************)
(* C15 Notification failure never blocks persistence: in a cycle that      *)
(* sends, whichever sends fail (send_message returns False, which is what  *)
(* a transport error becomes), the cycle makes every call of its branch,   *)
(* the save_status call included, and holds the saved record afterwards;   *)
(* no recipient is sent the same message twice in the cycle.               *)
(***************************************************************************)
C15_FailureNeverBlocks ==
    (ending = "returned" /\ \E i \in SentIndexes : ~calls[i].ok)
    => /\ [i \in 1..Len(calls) |-> calls[i].call]
              = <<LoadCall>> \o MonitorEffects(last_status, current_status,
                                               power_chat_ids, log_track, debug_chat_id)
       /\ Cardinality(SaveIndexes) = 1
       /\ \A j \in SaveIndexes : persisted = calls[j].call.status
       /\ persisted.timestamp = current_status.timestamp
       /\ \A i \in SentIndexes : \A j \in SentIndexes :
             (calls[i].call.chat_id = calls[j].call.chat_id
              /\ calls[i].call.text = calls[j].call.text) => i = j

\* The first of two primary sends failed, the second was still made and the
\* restoration was saved.
C15_Witness ==
    /\ ending = "returned" /\ Cardinality(PrimaryIndexes) = 2
    /\ \E i \in PrimaryIndexes : ~calls[i].ok /\ \E j \in PrimaryIndexes : j > i
    /\ persisted # None /\ persisted.online /\ persisted.status_changed_at = now
    /\ last_status # None /\ ~last_status.online

\* The primary notification that announces a record with this online value.
TemplateFor(online) == IF online THEN "restored" ELSE "outage"

\* The last cycle sent the primary notification to every recipient, in the
\* order of power_chat_ids, and made its one save_status call after them.
DispatchedThenSaved(template) ==
    /\ Len(PrimarySent) = Len(power_chat_ids)
    /\ \A i \in 1..Len(PrimarySent) :
          /\ PrimarySent[i].chat_id = power_chat_ids[i]
          /\ PrimarySent[i].text.template = template
    /\ Cardinality(SaveIndexes) = 1
    /\ \A i \in PrimaryIndexes : \A j \in SaveIndexes : i < j

(***************************************************************************)
(* C16 Crash between dispatch and commit causes replay: when a cycle stops *)
(* after sending a primary notification (which is before its save_status   *)
(* call), the record held is still the one the cycle loaded, and the next  *)
(* cycle, if it runs to its end on an observation with the same online     *)
(* value, sends the same kind of primary notification again to every       *)
(* recipient and then saves the transition.                                *)
(***************************************************************************)
C16_CrashReplay ==
    [][(ending = "killed" /\ PrimaryIndexes # {})
       => /\ SaveIndexes = {}
          /\ persisted = last_status
          /\ (/\ ending' = "returned" /\ current_status' # None
              /\ current_status'.online = current_status.online)
             => /\ last_status' = last_status
                /\ DispatchedThenSaved(TemplateFor(current_status.online))'
                /\ \A i \in PrimaryIndexes : \A j \in PrimaryIndexes' :
                      calls'[j].call.text.template = calls[i].call.text.template
                /\ persisted'.online = current_status'.online
                /\ ~HasDraft(persisted')
                /\ persisted'.timestamp = current_status'.timestamp]_vars

\* The outage of one offline streak was announced in two cycles (the first
\* stopped before its save), and the second saved the confirmed outage.
C16_Witness ==
    /\ kills = 1 /\ ending = "returned" /\ run.outages = 2
    /\ DispatchedThenSaved("outage")
    /\ persisted # None /\ IsConfirmedOffline(persisted)

(***************************************************************************)
(* C17 No commit without attempted dispatch: after any cycle that loaded a *)
(* record, stopped part-way or not, if the record held has another online  *)
(* value than the one loaded, the cycle sent the corresponding primary     *)
(* notification to every configured recipient before its save_status call. *)
(***************************************************************************)
C17_NoCommitWithoutDispatch ==
    (/\ Observed /\ last_status # None /\ persisted # None
     /\ persisted.online # last_status.online)
    => DispatchedThenSaved(TemplateFor(persisted.online))

\* A restoration is held after a cycle whose sends to both recipients were
\* attempted and failed, in a run where a cycle had been stopped part-way.
C17_Witness ==
    /\ kills = 1 /\ Observed /\ last_status # None /\ persisted # None
    /\ ~last_status.online /\ persisted.online
    /\ Cardinality(PrimaryIndexes) = 2
    /\ \A i \in PrimaryIndexes : ~calls[i].ok

(***************************************************************************)
(* C18 Probe failure is not an observation: check_power_status returns     *)
(* None for every transport error, timeout, non-2xx response and malformed *)
(* payload, so that none of them is taken for an offline observation.      *)
(***************************************************************************)
C18_FailureIsNone ==
    response \in {"error", "malformed"} => current_status = None

\* The cycle that diverges: a response whose JSON body lacks the device's
\* itemData is processed as an offline observation and opens a draft.
C18_Witness ==
    /\ response = "malformed" /\ current_status # None /\ ~current_status.online
    /\ persisted # None /\ IsDraftOffline(persisted)
    /\ persisted.draft_off_time = current_status.timestamp

(***************************************************************************)
(* C19 Corrupt state is no prior state: a cycle that observes while the    *)
(* status file is missing, unreadable or holds anything but a well-formed  *)
(* record (valid JSON that is not a record included) returns without       *)
(* raising, having taken the bootstrap branch: it saves the observation as *)
(* the record and sends nothing.                                           *)
(***************************************************************************)
C19_CorruptIsNoPriorState ==
    [][(/\ status_file = None \/ status_file \in CorruptTexts
        /\ ending' # "none" /\ current_status' # None)
       => /\ ending' = "returned"
          /\ persisted' = BootstrapStatus(current_status')
          /\ Sent' = << >>]_vars

\* The cycle that diverges: the file held a JSON array, which
\* load_last_status returned as it is, and the cycle raised after the load.
C19_Witness ==
    /\ ending = "raised" /\ Observed /\ last_status = ListValue
    /\ status_file = ArrayText
    /\ Len(calls) = 1 /\ calls[1].call = LoadCall

SaveFailed == \E j \in SaveIndexes : ~calls[j].ok

(***************************************************************************)
(* C21 Persist failure is tolerated: when the save_status call of a cycle  *)
(* cannot write, the cycle still returns (nothing is raised), every send   *)
(* of its branch has been made, and the record held is unchanged: it is    *)
(* the record the cycle loaded, from which the next cycle decides.         *)
(***************************************************************************)
C21_PersistFailureTolerated ==
    SaveFailed
    => /\ ending = "returned"
       /\ [i \in 1..Len(calls) |-> calls[i].call]
              = <<LoadCall>> \o MonitorEffects(last_status, current_status,
                                               power_chat_ids, log_track, debug_chat_id)
       /\ persisted = last_status

\* The cycle that diverges: a restoration was announced, the write failed
\* after the file was opened, and the file is left empty: no record is held.
C21_Witness ==
    /\ SaveFailed /\ ending = "returned"
    /\ PrimaryIndexes # {} /\ last_status # None /\ ~last_status.online
    /\ status_file = EmptyText /\ persisted = None

(***************************************************************************)
(* C22 Atomic overwrite: a load_last_status that interleaves with a        *)
(* save_status of another invocation reads either no file (none was ever   *)
(* written) or the complete text of a record, never an empty or partly     *)
(* written file.                                                           *)
(***************************************************************************)
C22_AtomicOverwrite ==
    \A p \in Procs :
        inflight[p].saw = None \/ inflight[p].saw.json = "object"

\* The interleaving that diverges: while one process is inside save_status,
\* between open and write, of a cycle that had loaded a record, the other
\* reads the empty file, loads nothing and is about to save a bootstrap record.
C22_Witness ==
    \E p \in Procs : \E q \in Procs \ {p} :
        /\ inflight[q].pc = "write" /\ inflight[q].loaded # None
        /\ inflight[p].pc = "act" /\ inflight[p].saw = EmptyText
        /\ inflight[p].loaded = None
        /\ inflight[p].todo = <<SaveCall(BootstrapStatus(inflight[p].cur))>>

\* The primary notifications process p's latest invocation has sent.
PrimaryOf(p) ==
    {inflight[p].done[i].text.template :
        i \in {j \in SendIndexes(inflight[p].done) : IsPrimary(inflight[p].done[j])}}

\* The latest invocations of the two processes loaded the same record and
\* each sent the same primary notification.
Duplicate ==
    \E p \in Procs : \E q \in Procs \ {p} :
        /\ inflight[p].loaded # None
        /\ inflight[p].loaded = inflight[q].loaded
        /\ PrimaryOf(p) \cap PrimaryOf(q) # {}

(***************************************************************************)
(* C23 No guard against overlapping invocations: an invocation sends what  *)
(* follows from the record it loaded, whatever another invocation has      *)
(* sent or saved since; so two invocations that overlap can both load the  *)
(* same record and each send the same primary notification, while no two   *)
(* invocations do as long as none has overlapped another.                  *)
(***************************************************************************)
C23_NoGuard ==
    /\ Duplicate => overlapped
    /\ \A p \in Procs :
          (~InFlight(p) /\ inflight[p].done # << >>)
          => inflight[p].done
                 = <<LoadCall>> \o MonitorEffects(inflight[p].loaded, inflight[p].cur,
                                                  power_chat_ids, log_track,
                                                  debug_chat_id)

\* Two overlapping invocations have both loaded the same draft record, whose
\* delay had passed, both sent the outage notification and both returned.
C23_Witness ==
    /\ Duplicate /\ overlapped
    /\ \A p \in Procs :
          /\ ~InFlight(p) /\ IsDraftOffline(inflight[p].loaded)
          /\ PrimaryOf(p) = {"outage"}

\* The positions in the last cycle's calls of the debug notifications.
DebugIndexes == SentIndexes \ PrimaryIndexes

(***************************************************************************)
(* C24 Debug lifecycle events: with draft tracking on and a debug chat     *)
(* configured, a cycle that begins a draft (online record, offline         *)
(* observation), cancels one (draft record, online observation) or         *)
(* confirms one (draft record, offline observation after the delay) sends  *)
(* one debug notification, to the debug chat.                              *)
(***************************************************************************)
C24_DebugLifecycle ==
    (/\ ending = "returned" /\ Observed /\ last_status # None
     /\ log_track /\ debug_chat_id # ""
     /\ \/ IsOnline(last_status) /\ ~current_status.online
        \/ IsDraftOffline(last_status) /\ current_status.online
        \/ /\ IsDraftOffline(last_status) /\ ~current_status.online
           /\ current_status.timestamp - last_status.draft_off_time
                 >= POWER_OFF_CONFIRMATION_DELAY)
    => /\ Cardinality(DebugIndexes) = 1
       /\ \A i \in DebugIndexes : calls[i].call.chat_id = debug_chat_id

\* The cycle that diverges: a draft is cancelled by an online observation,
\* with tracking on and a debug chat, and no notification at all is sent.
C24_Witness ==
    /\ ending = "returned" /\ Observed /\ current_status.online
    /\ last_status # None /\ IsDraftOffline(last_status)
    /\ log_track /\ debug_chat_id # ""
    /\ IsOnline(persisted) /\ SentIndexes = {}

(***************************************************************************)
(* C25 Debug gating: no debug notification is sent when draft tracking is  *)
(* off or no debug chat is configured; a debug notification goes to the    *)
(* debug chat only, silently; and the other calls of a cycle, the primary  *)
(* notifications and the record saved, are those of the same cycle with    *)
(* tracking off.                                                           *)
(***************************************************************************)
C25_DebugGating ==
    /\ (~log_track \/ debug_chat_id = "") => DebugIndexes = {}
    /\ \A i \in DebugIndexes :
          /\ calls[i].call.chat_id = debug_chat_id
          /\ calls[i].call.silent_mode
    /\ \A i \in PrimaryIndexes :
          /\ \E k \in 1..Len(power_chat_ids) : calls[i].call.chat_id = power_chat_ids[k]
          /\ ~calls[i].call.silent_mode
    /\ (ending = "returned" /\ Observed) =>
          /\ LET others == SelectSeq(calls, LAMBDA c :
                               ~(IsSend(c.call) /\ ~IsPrimary(c.call)))
             IN  [i \in 1..Len(others) |-> others[i].call]
                     = <<LoadCall>> \o MonitorEffects(last_status, current_status,
                                                      power_chat_ids, FALSE, "")
          /\ \A j \in SaveIndexes : persisted = calls[j].call.status

\* An outage is confirmed and announced with a debug chat configured and
\* tracking off: no debug notification.
C25_Witness ==
    /\ ending = "returned" /\ ~log_track /\ debug_chat_id # ""
    /\ PrimaryIndexes # {} /\ DebugIndexes = {}
    /\ last_status # None /\ IsDraftOffline(last_status)
    /\ IsConfirmedOffline(persisted)

\* The parts of the latest format_duration result with one of these units.
PartsWith(units) == {i \in 1..Len(duration_str) : duration_str[i][2] \in units}

DayUnits == {"den", "dni", "dniv"}

(***************************************************************************)
(* C26 Duration decomposition: for a number of seconds s >= 0 the result   *)
(* of format_duration shows days = s div 86400, hours = (s div 3600) mod   *)
(* 24 and minutes = (s div 60) mod 60, in this order; the days iff > 0,    *)
(* the hours iff > 0, the minutes iff > 0 or days and hours are both 0; so *)
(* it is never empty and for s < 60 it is the zero-minute text.            *)
(***************************************************************************)
C26_Decomposition ==
    LET s == duration_seconds
        days == s \div 86400
        hours == (s \div 3600) % 24
        minutes == (s \div 60) % 60
        d == PartsWith(DayUnits)
        h == PartsWith({"hod."})
        m == PartsWith({"khv"})
    IN  /\ Cardinality(d) = (IF days > 0 THEN 1 ELSE 0)
        /\ Cardinality(h) = (IF hours > 0 THEN 1 ELSE 0)
        /\ Cardinality(m) = (IF minutes > 0 \/ (days = 0 /\ hours = 0) THEN 1 ELSE 0)
        /\ Len(duration_str) = Cardinality(d) + Cardinality(h) + Cardinality(m)
        /\ \A i \in d : duration_str[i][1] = days /\ i = 1
        /\ \A i \in h : duration_str[i][1] = hours /\ \A j \in d : j < i
        /\ \A i \in m : duration_str[i][1] = minutes /\ i = Len(duration_str)
        /\ duration_str # << >>
        /\ s < 60 => duration_str = << <<0, "khv">> >>

\* 22 days, 23 hours and 59 seconds: the seconds are dropped, not rounded, and
\* the zero minutes are not shown.
C26_Witness ==
    /\ duration_seconds = ((22 * 24 + 23) * 60 + 0) * 60 + 59
    /\ Len(duration_str) = 2
    /\ duration_str[1][1] = 22 /\ duration_str[2] = <<23, "hod.">>

(***************************************************************************)
(* C27 Day pluralization: the day word of a format_duration result is the  *)
(* singular form iff days = 1, the first plural form iff 2 <= days <= 4,   *)
(* and the second plural form for every other positive count of days       *)
(* (5 and above, 21 and 22 included).                                      *)
(***************************************************************************)
C27_DayPlural ==
    LET days == duration_seconds \div 86400
    IN  days > 0 =>
            /\ duration_str[1][1] = days
            /\ (duration_str[1][2] = "den") <=> (days = 1)
            /\ (duration_str[1][2] = "dni") <=> (2 <= days /\ days <= 4)
            /\ (duration_str[1][2] = "dniv") <=> (days >= 5)

\* 21 days are shown with the second plural form.
C27_Witness ==
    /\ duration_seconds \div 86400 = 21
    /\ duration_str[1] = <<21, "dniv">>

(***************************************************************************)
(* C28 Restricted window: _is_restricted_time returns true exactly when    *)
(* the time of day t satisfies t >= 23:30 or t <= 00:30, both ends         *)
(* included, and false for every other time of day.                        *)
(***************************************************************************)
C28_RestrictedWindow ==
    LET t == (current_time[1] * 60 + current_time[2]) * 60 + current_time[3]
        us == current_time[4]
    IN  restricted <=> \/ t >= (23 * 60 + 30) * 60
                       \/ t < 30 * 60
                       \/ t = 30 * 60 /\ us = 0

\* At 00:30:00 exactly the time is restricted.
C28_Witness ==
    /\ current_time = <<0, 30, 0, 0>> /\ restricted

(***************************************************************************)
(* C29 Send before save in every cycle: in a cycle that sends any          *)
(* notification, primary or debug, the draft-begin debug message included, *)
(* every send is made before the save_status call.                         *)
(***************************************************************************)
C29_SendBeforeSave ==
    \A i \in SentIndexes : \A j \in SaveIndexes : i < j

\* The cycle that diverges: the draft is saved and the draft-begin debug
\* message is sent after it.
C29_Witness ==
    /\ ending = "returned" /\ IsDraftOffline(persisted)
    /\ persisted.draft_off_time = now
    /\ \E j \in SaveIndexes : \E i \in DebugIndexes :
          /\ j < i
          /\ calls[i].call.text.template = "draft_begin"

(***************************************************************************)
(* C30 Independent delivery per recipient: in a cycle that sends a primary *)
(* notification, whichever of the sends are rejected (send_message returns *)
(* False), every configured recipient gets exactly one send of it, in the  *)
(* configured order, all with the same text.                               *)
(***************************************************************************)
C30_IndependentDelivery ==
    (ending = "returned" /\ PrimaryIndexes # {})
    => /\ \A k \in 1..Len(power_chat_ids) :
             Cardinality({i \in PrimaryIndexes :
                             calls[i].call.chat_id = power_chat_ids[k]}) = 1
       /\ Len(PrimarySent) = Len(power_chat_ids)
       /\ \A k \in 1..Len(PrimarySent) :
             /\ PrimarySent[k].chat_id = power_chat_ids[k]
             /\ PrimarySent[k].text = PrimarySent[1].text

\* The outage notification was rejected for the first recipient and sent to
\* the second all the same.
C30_Witness ==
    /\ ending = "returned" /\ Cardinality(PrimaryIndexes) = 2
    /\ \E i \in PrimaryIndexes : \E j \in PrimaryIndexes :
          /\ i < j /\ ~calls[i].ok /\ calls[j].ok
          /\ calls[i].call.text.template = "outage"
          /\ calls[j].call.chat_id = power_chat_ids[2]


(***************************************************************************)
(* C31 Primary routing: the outage and restored notifications of a cycle   *)
(* go to every chat id of power_chat_ids, in order, and to no other chat,  *)
(* with silent_mode false and force_send true; send_message called so      *)
(* attempts the delivery to that chat and returns Telegram's answer at any *)
(* time of day, the restricted window 23:30-00:30 included.                *)
(***************************************************************************)
C31_PrimaryRouting ==
    LET flipped == /\ Observed /\ last_status # None /\ ending = "returned"
                   /\ persisted # None /\ last_status.online # persisted.online
    IN  /\ (flipped \/ PrimarySent # << >>) =>
               [i \in 1..Len(PrimarySent) |-> PrimarySent[i].chat_id] = power_chat_ids
        /\ \A i \in PrimaryIndexes :
               LET c == calls[i].call
                   outcome == send_message(c.chat_id, "", TimeOfDay(now),
                                           c.force_send, calls[i].ok)
               IN  /\ ~c.silent_mode
                   /\ c.force_send
                   /\ ~outcome.raised /\ outcome.attempted
                   /\ outcome.to = c.chat_id
                   /\ outcome.result = calls[i].ok

\* An outage is announced to two chats inside the restricted window, the
\* second send rejected.
C31_Witness ==
    /\ is_restricted_time(TimeOfDay(now))
    /\ power_chat_ids = <<"c1", "c2">>
    /\ Len(PrimarySent) = 2
    /\ PrimarySent[1].text.template = "outage"
    /\ \E i \in PrimaryIndexes : ~calls[i].ok


(***************************************************************************)
(* C32 Restricted-window gate of send_message.  For a call that has a chat *)
(* id to send to (chat_id given, or TELEGRAM_CHAT_ID set): inside the      *)
(* restricted window without force_send the call raises and bot.send_     *)
(* message is not called; with force_send, or outside the window,          *)
(* bot.send_message is called with that chat id and the call returns True  *)
(* if Telegram accepts and False if it raises TelegramError.  A call with  *)
(* no chat id at all raises before the gate and attempts nothing.          *)
(***************************************************************************)
Inside == is_restricted_time(delivery.time)
Resolved == delivery.chat_id # "" \/ delivery.default_chat_id # ""

C32_RestrictedGate ==
    LET o == delivery.outcome
    IN  /\ (Resolved /\ Inside /\ ~delivery.force_send) =>
               (o.raised /\ ~o.attempted)
        /\ (Resolved /\ (delivery.force_send \/ ~Inside)) =>
               /\ ~o.raised /\ o.attempted
               /\ o.to = (IF delivery.chat_id # "" THEN delivery.chat_id
                          ELSE delivery.default_chat_id)
               /\ o.result = delivery.accepted
        /\ ~Resolved => (o.raised /\ ~o.attempted)

\* A forced send to a given chat at 00:30:00, the last instant of the
\* window, which Telegram rejects.
C32_Witness ==
    /\ delivery.time = <<0, 30, 0, 0>>
    /\ delivery.force_send /\ delivery.chat_id = "c1" /\ ~delivery.accepted
    /\ delivery.outcome.attempted /\ ~delivery.outcome.result

\* C32 as stated, for every call: the gate alone decides whether the
\* delivery is attempted.
C32_GateAloneDecides ==
    LET o == delivery.outcome
    IN  /\ (Inside /\ ~delivery.force_send) => (o.raised /\ ~o.attempted)
        /\ (delivery.force_send \/ ~Inside) =>
               (o.attempted /\ o.result = delivery.accepted)


(***************************************************************************)
(* C33 Alternation of primary notifications: in cycles one after another,  *)
(* none killed, every save succeeding, starting from no record and with at *)
(* least one primary chat configured, two outage notifications are never   *)
(* dispatched without a restored one between them, nor two restored ones   *)
(* without an outage one between them; and the persisted online is false   *)
(* exactly when the last event was an outage notification, or an offline   *)
(* bootstrap with no notification since.                                   *)
(***************************************************************************)
Alternates ==
    announced[2] \in PrimaryTemplates => announced[1] # announced[2]

OfflineExactlyAfterOutage ==
    persisted # None =>
        (~persisted.online <=> announced[2] \in {"outage", "booted_offline"})

C33_Alternation ==
    power_chat_ids # << >> => (Alternates /\ OfflineExactlyAfterOutage)

\* Booted offline, then restored, then an outage confirmed: the record is
\* offline again after the second notification.
C33_Witness ==
    /\ power_chat_ids # << >>
    /\ announced = <<"restored", "outage">>
    /\ IsConfirmedOffline(persisted)
    /\ PrimarySent # << >>

\* C33 as stated, whatever the list of primary chats.
C33_AlternationAnyRecipients ==
    Alternates /\ OfflineExactlyAfterOutage


(***************************************************************************)
(* C34 Reported durations are bounded below: in cycles one after another   *)
(* on a clock that never runs backwards, the record written by the program *)
(* alone, every primary notification carries the formatted time from the   *)
(* record's status_changed_at to the observation; that time is >= 0 for a  *)
(* restored notification and >= POWER_OFF_CONFIRMATION_DELAY for an outage *)
(* notification.                                                           *)
(***************************************************************************)
C34_DurationsBoundedBelow ==
    \A i \in 1..Len(PrimarySent) :
        LET c == PrimarySent[i]
            duration == current_status.timestamp - last_status.status_changed_at
        IN  /\ c.text.duration_str = format_duration(duration)
            /\ c.text.template = "restored" => duration >= 0
            /\ c.text.template = "outage" => duration >= POWER_OFF_CONFIRMATION_DELAY

\* An outage confirmed exactly POWER_OFF_CONFIRMATION_DELAY after a draft
\* that began in the second the record was created: the smallest duration.
C34_Witness ==
    /\ PrimarySent # << >>
    /\ PrimarySent[1].text.template = "outage"
    /\ current_status.timestamp - last_status.status_changed_at
           = POWER_OFF_CONFIRMATION_DELAY
    /\ last_status.draft_off_time = last_status.status_changed_at


(***************************************************************************)
(* C35 Record well-formedness survives overlap: however two invocations    *)
(* interleave, once no process is inside save_status the file, if there is *)
(* one, holds a whole record (the complete text one cycle saved), and that *)
(* record is online whenever it has a draft_off_time.                      *)
(***************************************************************************)
C35_WholeRecords ==
    (\A p \in Procs : inflight[p].pc # "write") =>
        \/ status_file = None
        \/ /\ status_file.json = "object"
           /\ HasDraft(persisted) => persisted.online

\* The interleaving that diverges: both processes have opened the file, one
\* wrote its record and the other wrote a shorter one over it; both
\* invocations are over and the file holds the second text followed by the
\* tail of the first, which does not load.
C35_Witness ==
    /\ \A p \in Procs : inflight[p].pc = "idle" /\ inflight[p].done # << >>
    /\ status_file = GarbageText
    /\ persisted = None


(***************************************************************************)
(* C36 Long-running mode keeps cycling: start_monitoring runs a cycle at   *)
(* once and then one cycle after each sleep of interval_minutes * 60       *)
(* seconds, one at a time; no cycle stops it, whether its probe fails, a   *)
(* notification is rejected or save_status fails; and it goes on running   *)
(* cycles up to the end of the time observed.                              *)
(***************************************************************************)
Started == loop.pc # "off"

C36_KeepsCycling ==
    /\ [](Started =>
            /\ loop.pc # "stopped"
            /\ loop.cycles > 0 => ending = "returned"
            /\ now = StartTime + interval_minutes * 60 *
                        (IF loop.pc = "due" THEN loop.cycles ELSE loop.cycles - 1)
            /\ \A p \in Procs : ~InFlight(p))
    /\ <>(/\ loop.pc = "sleeping"
          /\ now + interval_minutes * 60 > StartTime + Horizon)

\* The loop sleeps after its fourth cycle, which confirmed an outage, had
\* its notification rejected and its save_status fail.
C36_Witness ==
    /\ loop.pc = "sleeping" /\ loop.cycles = 4
    /\ SaveFailed
    /\ \E i \in PrimaryIndexes :
           calls[i].call.text.template = "outage" /\ ~calls[i].ok


(***************************************************************************)
(* C37 The two formatters agree: for every number of seconds >= 0, zero    *)
(* included, BotMenuHandler.format_duration returns the same string as     *)
(* PowerMonitor.format_duration.                                           *)
(***************************************************************************)
C37_FormattersAgree ==
    menu_duration_str = FormattedText(duration_str)

\* The two were called with 1 day 1 hour 1 minute: the same three numbers,
\* each followed by a different word.
C37_Witness ==
    /\ duration_seconds = 90060
    /\ Len(duration_str) = 3
    /\ menu_duration_str # FormattedText(duration_str)
    /\ Len(menu_duration_str) # Len(FormattedText(duration_str))


(***************************************************************************)
(* C38 The notification chat list is a set: after any calls of             *)
(* add_notification_chat and remove_notification_chat, one at a time, no   *)
(* user's list holds a chat id twice, and it holds a chat id exactly when  *)
(* the last call for that user and chat id was an add; an add made twice   *)
(* gives what it gives once, a remove of an absent chat id leaves the list *)
(* as it is, and a call for one user leaves every other user's row as it   *)
(* is.                                                                     *)
(***************************************************************************)
\* The list get_user_settings would return for the user.
ChatsOf(table, u) == get_user_settings(table, u).notification_chats

NoDuplicates(chats) ==
    \A i \in 1..Len(chats) : \A j \in 1..Len(chats) : chats[i] = chats[j] => i = j

C38_ChatListIsASet ==
    \A u \in Users : \A c \in ChatIds :
        LET chats == ChatsOf(user_settings, u)
            added == add_notification_chat(user_settings, u, c)
            removed == remove_notification_chat(user_settings, u, c)
        IN  /\ NoDuplicates(chats)
            /\ In(c, chats) <=> last_op[u][c] = "add"
            /\ user_settings[u] = None => last_op[u][c] = "none"
            /\ add_notification_chat(added, u, c) = added
            /\ In(c, ChatsOf(added, u)) /\ NoDuplicates(ChatsOf(added, u))
            /\ ~In(c, chats) => ChatsOf(removed, u) = chats
            /\ ~In(c, ChatsOf(removed, u))
            /\ \A v \in Users \ {u} :
                   added[v] = user_settings[v] /\ removed[v] = user_settings[v]

\* User 1 added 10 and 20, removed 10, added it again, and removed 30, which
\* was never there; user 2 has added 10 only.
C38_Witness ==
    /\ ChatsOf(user_settings, 1) = <<20, 10>>
    /\ last_op[1][30] = "remove"
    /\ user_settings[2] = json_dumps(<<10>>)


(***************************************************************************)
(* C39 A draft is recognised for every timestamp value: from a record with *)
(* draft_off_time = t, whatever t >= 0 is, zero included, an offline       *)
(* observation measures the time elapsed since t: it confirms the outage   *)
(* if that time is POWER_OFF_CONFIRMATION_DELAY or more, and otherwise     *)
(* leaves the draft as it is, begun at t.                                  *)
(***************************************************************************)
C39_DraftRecognised ==
    ( /\ Observed /\ ending = "returned"
      /\ IsDraftOffline(last_status) /\ ~current_status.online ) =>
        IF current_status.timestamp - last_status.draft_off_time
               >= POWER_OFF_CONFIRMATION_DELAY
        THEN IsConfirmedOffline(persisted)
        ELSE /\ IsDraftOffline(persisted)
             /\ persisted.draft_off_time = last_status.draft_off_time

\* The input that diverges: the record holds draft_off_time = 0 and an
\* offline observation 600 seconds later, instead of confirming the outage,
\* begins a draft at its own timestamp and sends nothing.
C39_Witness ==
    /\ Observed /\ ~current_status.online
    /\ IsDraftOffline(last_status) /\ last_status.draft_off_time = 0
    /\ current_status.timestamp = POWER_OFF_CONFIRMATION_DELAY
    /\ IsDraftOffline(persisted)
    /\ persisted.draft_off_time = current_status.timestamp
    /\ PrimarySent = << >>

=============================================================================
